---- MODULE Spec2Model ----
(***************************************************************************)
(* A model of the bencode decoder of mplavcic/bittorrent_client:           *)
(* decode_bencoded_value (src/src/bencode.rs) parses a &str with           *)
(* serde_bencode::from_str into a serde_bencode::value::Value and converts *)
(* that tree into a serde_json::Value.  Bytes are modelled as the numbers  *)
(* 0..255, strings as sequences of bytes.  The parser is the library's     *)
(* byte-at-a-time reader; the conversion iterates over the library's       *)
(* HashMap, whose iteration order is unspecified and is modelled as a      *)
(* nondeterministic choice.                                                *)
(***************************************************************************)
EXTENDS Integers, Sequences, FiniteSets, TLC

\* encoded_value[c]: the &str argument of call c, as bytes
\* written:   how encoded_value[1] was written: the first `cut` bytes of the
\*            bencode text of `tree`
\* value[c]:  the serde_bencode Value of line 37, once call c got that far
\* out[c]:    what call c returned
VARIABLES encoded_value, written, value, out

vars == <<encoded_value, written, value, out>>

(***************************************************************************)
(* Bytes and text                                                          *)
(***************************************************************************)

\* The UTF-8 bytes of the characters the inputs are written with
\* (str::as_bytes of the &str argument).  "E" is the two-byte character
\* U+00E9, "H" the three-byte character U+20AC.
Utf8Of(c) ==
    CASE c = "0" -> <<48>> [] c = "1" -> <<49>> [] c = "2" -> <<50>>
      [] c = "3" -> <<51>> [] c = "4" -> <<52>> [] c = "5" -> <<53>>
      [] c = "6" -> <<54>> [] c = "7" -> <<55>> [] c = "8" -> <<56>>
      [] c = "9" -> <<57>>
      [] c = ":" -> <<58>> [] c = "-" -> <<45>> [] c = "+" -> <<43>>
      [] c = "a" -> <<97>> [] c = "b" -> <<98>> [] c = "d" -> <<100>>
      [] c = "e" -> <<101>> [] c = "h" -> <<104>> [] c = "i" -> <<105>>
      [] c = "k" -> <<107>> [] c = "l" -> <<108>> [] c = "o" -> <<111>>
      [] c = "u" -> <<117>> [] c = "v" -> <<118>> [] c = "x" -> <<120>>
      [] c = "y" -> <<121>>
      [] c = "E" -> <<195, 169>>
      [] c = "H" -> <<226, 130, 172>>

RECURSIVE Str(_)
\* The bytes of a text given as a tuple of characters.
Str(cs) == IF cs = <<>> THEN <<>> ELSE Utf8Of(Head(cs)) \o Str(Tail(cs))

ByteOf(c) == Utf8Of(c)[1]

IsDigit(b) == b >= 48 /\ b <= 57

IsCont(s, i) == i <= Len(s) /\ s[i] >= 128 /\ s[i] <= 191

\* The length of the well-formed UTF-8 sequence that starts at s[i], or 0
\* when there is none (core::str::from_utf8's validation).
Utf8SeqLen(s, i) ==
    LET b == s[i] IN
    IF b < 128 THEN 1
    ELSE IF b >= 194 /\ b <= 223
         THEN IF IsCont(s, i + 1) THEN 2 ELSE 0
    ELSE IF b >= 224 /\ b <= 239
         THEN IF /\ IsCont(s, i + 1) /\ IsCont(s, i + 2)
                 /\ (b = 224 => s[i + 1] >= 160)
                 /\ (b = 237 => s[i + 1] <= 159)
              THEN 3 ELSE 0
    ELSE IF b >= 240 /\ b <= 244
         THEN IF /\ IsCont(s, i + 1) /\ IsCont(s, i + 2) /\ IsCont(s, i + 3)
                 /\ (b = 240 => s[i + 1] >= 144)
                 /\ (b = 244 => s[i + 1] <= 143)
              THEN 4 ELSE 0
    ELSE 0

RECURSIVE ValidUpTo(_, _)
\* Utf8Error::valid_up_to: the number of leading bytes of s, from index i
\* on, that are valid UTF-8.
ValidUpTo(s, i) ==
    IF i > Len(s) THEN Len(s)
    ELSE LET n == Utf8SeqLen(s, i) IN
         IF n = 0 THEN i - 1 ELSE ValidUpTo(s, i + n)

IsUtf8(s) == ValidUpTo(s, 1) = Len(s)

(***************************************************************************)
(* Results                                                                 *)
(***************************************************************************)

\* Err(kind) of the library's parser or of the conversion.  The kinds are
\* serde_bencode::Error's variants EndOfStream, InvalidValue, InvalidType,
\* std's FromUtf8Error, and the message of the anyhow::bail! at line 29.
Fail(kind) == [ok |-> FALSE, err |-> [kind |-> kind]]

\* A successfully read item and the reader's position after it.
Read(v, pos) == [ok |-> TRUE, val |-> v, pos |-> pos]

\* serde_bencode::value::Value
BBytes(b) == [t |-> "Bytes", b |-> b]
BInt(i) == [t |-> "Int", i |-> i]
BList(l) == [t |-> "List", l |-> l]
BDict(d) == [t |-> "Dict", d |-> d]

\* serde_json::Value (Map<String, Value> is keyed by the text's bytes)
JString(s) == [t |-> "String", s |-> s]
JNumber(n) == [t |-> "Number", n |-> n]
JArray(a) == [t |-> "Array", a |-> a]
JObject(m) == [t |-> "Object", m |-> m]

(***************************************************************************)
(* Number parsing: str::parse::<i64>() and str::parse::<usize>()           *)
(***************************************************************************)

RECURSIVE DigitsValue(_, _)
\* The decimal value of the ASCII digits ds, accumulated onto acc.
DigitsValue(ds, acc) ==
    IF ds = <<>> THEN acc
    ELSE DigitsValue(Tail(ds), 10 * acc + (Head(ds) - 48))

RECURSIVE StripZeros(_)
StripZeros(ds) ==
    IF ds # <<>> /\ Head(ds) = 48 THEN StripZeros(Tail(ds)) ELSE ds

RECURSIVE LexGreater(_, _)
\* ds > limit for two digit strings of the same length.
LexGreater(ds, limit) ==
    IF ds = <<>> THEN FALSE
    ELSE IF Head(ds) # Head(limit) THEN Head(ds) > Head(limit)
    ELSE LexGreater(Tail(ds), Tail(limit))

\* Whether the digit string exceeds the decimal number written in limit
\* (the checked arithmetic of from_str_radix, decided on the digits).
Overflows(ds, limit) ==
    LET d == StripZeros(ds) IN
    \/ Len(d) > Len(limit)
    \/ Len(d) = Len(limit) /\ LexGreater(d, limit)

I64Max == Str(<<"9","2","2","3","3","7","2","0","3","6","8","5","4","7","7","5","8","0","7">>)
I64MinAbs == Str(<<"9","2","2","3","3","7","2","0","3","6","8","5","4","7","7","5","8","0","8">>)
UsizeMax == Str(<<"1","8","4","4","6","7","4","4","0","7","3","7","0","9","5","5","1","6","1","5">>)

AllDigits(ds) == \A k \in 1..Len(ds) : IsDigit(ds[k])

\* <i64 as FromStr>::from_str: an optional sign, + or -, then one or more
\* digits; leading zeros are accepted; overflow is an error.
ParseI64(text) ==
    IF text = <<>> THEN [ok |-> FALSE]
    ELSE LET neg == text[1] = ByteOf("-")
             signed == neg \/ text[1] = ByteOf("+")
             ds == IF signed THEN Tail(text) ELSE text
         IN  IF ds = <<>> \/ ~AllDigits(ds) THEN [ok |-> FALSE]
             ELSE IF Overflows(ds, IF neg THEN I64MinAbs ELSE I64Max)
                  THEN [ok |-> FALSE]
             ELSE [ok |-> TRUE,
                   n |-> IF neg THEN 0 - DigitsValue(ds, 0) ELSE DigitsValue(ds, 0)]

\* <usize as FromStr>::from_str: an optional +, then one or more digits.
ParseUsize(text) ==
    IF text = <<>> THEN [ok |-> FALSE]
    ELSE LET ds == IF text[1] = ByteOf("+") THEN Tail(text) ELSE text
         IN  IF ds = <<>> \/ ~AllDigits(ds) THEN [ok |-> FALSE]
             ELSE IF Overflows(ds, UsizeMax) THEN [ok |-> FALSE]
             ELSE [ok |-> TRUE, n |-> DigitsValue(ds, 0)]

(***************************************************************************)
(* serde_bencode's Deserializer over the bytes of the input                *)
(***************************************************************************)

RECURSIVE FindByte(_, _, _)
\* The position of the first byte b of s at or after pos; 0 when the
\* reader hits the end first (the read-one-byte loops of the parser).
FindByte(s, b, pos) ==
    IF pos > Len(s) THEN 0
    ELSE IF s[pos] = b THEN pos
    ELSE FindByte(s, b, pos + 1)

\* The number a parse gave, as the item read up to position next.
NumberRead(n, kind, next) ==
    IF ~n.ok THEN Fail("InvalidValue")
    ELSE IF kind = "Int" THEN Read([t |-> "Int", i |-> n.n], next)
    ELSE Read(n.n, next)

\* Deserializer::parse_int, once the terminating `e` was found at j (0:
\* the input ended first): the bytes before it, parsed as i64.
ParseIntTo(s, pos, j) ==
    IF j = 0 THEN Fail("EndOfStream")
    ELSE IF ~IsUtf8(SubSeq(s, pos, j - 1)) THEN Fail("InvalidValue")
    ELSE NumberRead(ParseI64(SubSeq(s, pos, j - 1)), "Int", j + 1)

\* Deserializer::parse_int: the bytes up to the next `e`, parsed as i64.
ParseInt(s, pos) == ParseIntTo(s, pos, FindByte(s, ByteOf("e"), pos))

\* Deserializer::parse_bytes_len, once the `:` was found at j (0: the
\* input ended first): the first digit and the bytes before the colon,
\* parsed as usize.
ParseBytesLenTo(s, pos, j) ==
    IF j = 0 THEN Fail("EndOfStream")
    ELSE IF ~IsUtf8(SubSeq(s, pos - 1, j - 1)) THEN Fail("InvalidValue")
    ELSE NumberRead(ParseUsize(SubSeq(s, pos - 1, j - 1)), "Len", j + 1)

\* Deserializer::parse_bytes_len.  pos is the position after the first
\* digit of the length.
ParseBytesLen(s, pos) == ParseBytesLenTo(s, pos, FindByte(s, ByteOf(":"), pos))

\* Read::take(len).read_to_end: the number of bytes read from position pos.
TakeLen(s, pos, len) ==
    IF Len(s) - pos + 1 < len THEN Len(s) - pos + 1 ELSE len

\* A parse_bytes that returns the bytes that are left when fewer than the
\* declared number remain.
TakeBytesLenient(s, len) ==
    IF ~len.ok THEN len
    ELSE Read([t |-> "Bytes",
               b |-> SubSeq(s, len.pos, len.pos + TakeLen(s, len.pos, len.val) - 1)],
              len.pos + TakeLen(s, len.pos, len.val))

\* Deserializer::parse_bytes after the length len was read: exactly the
\* declared number of bytes, or EndOfStream when fewer remain.
TakeBytes(s, len) ==
    IF ~len.ok THEN len
    ELSE IF TakeLen(s, len.pos, len.val) # len.val THEN Fail("EndOfStream")
    ELSE Read([t |-> "Bytes", b |-> SubSeq(s, len.pos, len.pos + len.val - 1)],
              len.pos + len.val)

\* Deserializer::parse_bytes.
ParseBytes(s, pos) == TakeBytes(s, ParseBytesLen(s, pos))

\* Deserializer::parse: one ParseResult (Int, Bytes, List, Map or End)
\* read at pos.
Parse(s, pos) ==
    IF pos > Len(s) THEN Fail("EndOfStream")
    ELSE IF s[pos] = ByteOf("i") THEN ParseInt(s, pos + 1)
    ELSE IF IsDigit(s[pos]) THEN ParseBytes(s, pos + 1)
    ELSE IF s[pos] = ByteOf("l") THEN Read([t |-> "List"], pos + 1)
    ELSE IF s[pos] = ByteOf("d") THEN Read([t |-> "Map"], pos + 1)
    ELSE IF s[pos] = ByteOf("e") THEN Read([t |-> "End"], pos + 1)
    ELSE Fail("InvalidValue")

(***************************************************************************)
(* Deserialize for serde_bencode::value::Value                             *)
(***************************************************************************)

\* A map that keeps the first entry of a key instead.
HashMapInsertFirst(map, k, v) == map @@ (k :> v)

\* HashMap::insert: a later entry of an equal key replaces the earlier one.
HashMapInsert(map, k, v) == (k :> v) @@ map

RECURSIVE DeserializeAny(_, _)
RECURSIVE VisitSeq(_, _, _)
RECURSIVE VisitMap(_, _, _)
RECURSIVE VisitByteSeq(_, _, _)

\* One turn of ByteBuf's visit_seq on the ParseResult r: every element is
\* read as a u8, so it must be an integer in 0..=255.
VisitByteSeqOn(s, bytes, r) ==
    IF ~r.ok THEN r
    ELSE IF r.val.t = "End" THEN Read(bytes, r.pos)
    ELSE IF r.val.t # "Int" THEN Fail("InvalidType")
    ELSE IF r.val.i < 0 \/ r.val.i > 255 THEN Fail("InvalidValue")
    ELSE VisitByteSeq(s, r.pos, Append(bytes, r.val.i))

\* ByteBuf's visit_seq, which a list standing at a key position reaches.
VisitByteSeq(s, pos, bytes) == VisitByteSeqOn(s, bytes, Parse(s, pos))

\* MapAccess::next_key_seed for a ByteBuf key, given the ParseResult r that
\* was read and put back: a byte-string, or a list of byte-sized integers.
DeserializeKey(s, r) ==
    IF r.val.t = "Bytes" THEN Read(r.val.b, r.pos)
    ELSE IF r.val.t = "List" THEN VisitByteSeq(s, r.pos, <<>>)
    ELSE Fail("InvalidType")

\* A visit_seq that puts each element before the earlier ones.
VisitSeqPushFront(s, list, e) ==
    IF ~e.ok THEN e ELSE VisitSeq(s, e.pos, <<e.val>> \o list)

\* visit_seq after the element e was deserialized.
VisitSeqPush(s, list, e) ==
    IF ~e.ok THEN e ELSE VisitSeq(s, e.pos, Append(list, e.val))

\* A visit_seq that takes the end of the input for the End marker.
VisitSeqOnLenient(s, list, r) ==
    IF ~r.ok THEN Read(BList(list), Len(s) + 1)
    ELSE IF r.val.t = "End" THEN Read(BList(list), r.pos)
    ELSE VisitSeqPush(s, list, DeserializeAny(s, r))

\* One turn of visit_seq's loop on the ParseResult r.
VisitSeqOn(s, list, r) ==
    IF ~r.ok THEN r
    ELSE IF r.val.t = "End" THEN Read(BList(list), r.pos)
    ELSE VisitSeqPush(s, list, DeserializeAny(s, r))

\* ValueVisitor::visit_seq: elements until the End marker.
VisitSeq(s, pos, list) == VisitSeqOn(s, list, Parse(s, pos))

\* visit_map after the entry's value v was deserialized: map.insert.
VisitMapInsert(s, map, key, v) ==
    IF ~v.ok THEN v ELSE VisitMap(s, v.pos, HashMapInsert(map, key, v.val))

\* MapAccess::next_value_seed on the ParseResult rv.
VisitMapValue(s, map, key, rv) ==
    IF ~rv.ok THEN rv ELSE VisitMapInsert(s, map, key, DeserializeAny(s, rv))

\* visit_map after the entry's key k was deserialized.
VisitMapKey(s, map, k) ==
    IF ~k.ok THEN k ELSE VisitMapValue(s, map, k.val, Parse(s, k.pos))

\* One turn of visit_map's loop on the ParseResult r.
VisitMapOn(s, map, r) ==
    IF ~r.ok THEN r
    ELSE IF r.val.t = "End" THEN Read(BDict(map), r.pos)
    ELSE VisitMapKey(s, map, DeserializeKey(s, r))

\* ValueVisitor::visit_map: (key, value) entries until the End marker,
\* inserted into a HashMap.
VisitMap(s, pos, map) == VisitMapOn(s, map, Parse(s, pos))

\* Deserializer::deserialize_any on the ParseResult r.
DeserializeAny(s, r) ==
    IF r.val.t = "Int" THEN Read(BInt(r.val.i), r.pos)
    ELSE IF r.val.t = "Bytes" THEN Read(BBytes(r.val.b), r.pos)
    ELSE IF r.val.t = "List" THEN VisitSeq(s, r.pos, <<>>)
    ELSE IF r.val.t = "Map" THEN VisitMap(s, r.pos, <<>>)
    ELSE Fail("EndOfStream")

\* from_str on the first ParseResult r.
FromFirst(s, r) == IF ~r.ok THEN r ELSE DeserializeAny(s, r)

\* A from_str that rejects input with bytes after the first value.
FromStrWhole(s) ==
    IF FromFirst(s, Parse(s, 1)).ok /\ FromFirst(s, Parse(s, 1)).pos <= Len(s)
    THEN Fail("InvalidValue")
    ELSE FromFirst(s, Parse(s, 1))

\* serde_bencode::from_str: one value read from the start of the bytes;
\* what follows it is never read.
from_str(s) == FromFirst(s, Parse(s, 1))

(***************************************************************************)
(* convert: serde_bencode::value::Value to serde_json::Value               *)
(***************************************************************************)

RECURSIVE Lossy(_, _)
\* String::from_utf8_lossy: U+FFFD for every byte that starts no character.
Lossy(b, i) ==
    IF i > Len(b) THEN <<>>
    ELSE IF Utf8SeqLen(b, i) = 0 THEN <<239, 191, 189>> \o Lossy(b, i + 1)
    ELSE SubSeq(b, i, i + Utf8SeqLen(b, i) - 1) \o Lossy(b, i + Utf8SeqLen(b, i))

\* A conversion that substitutes characters instead of failing.
ConvertBytesLossy(b) == [ok |-> TRUE, val |-> JString(Lossy(b, 1))]

\* String::from_utf8 (lines 8-9).
ConvertBytes(b) ==
    IF IsUtf8(b) THEN [ok |-> TRUE, val |-> JString(b)]
    ELSE [ok |-> FALSE, err |-> [kind |-> "FromUtf8Error", at |-> ValidUpTo(b, 1)]]

\* serde_json::Map::insert.
JsonInsert(m, k, v) == (k :> v) @@ m

RECURSIVE convert(_)
RECURSIVE ConvertList(_, _, _)
RECURSIVE ConvertDict(_, _, _)

\* Lines 15-18: the elements in order, stopping at the first error.
ConvertList(l, i, acc) ==
    IF i > Len(l) THEN {[ok |-> TRUE, val |-> JArray(acc)]}
    ELSE UNION {IF ~o.ok THEN {o} ELSE ConvertList(l, i + 1, Append(acc, o.val))
                : o \in convert(l[i])}

\* Lines 24-30 for the entry of key, whose key converted to decoded_key.
ConvertEntry(d, rest, acc, key, decoded_key) ==
    IF ~decoded_key.ok THEN {decoded_key}
    ELSE UNION {
        IF ~decoded_value.ok THEN {decoded_value}
        ELSE IF decoded_key.val.t = "String"
             THEN ConvertDict(d, rest \ {key},
                              JsonInsert(acc, decoded_key.val.s, decoded_value.val))
             ELSE {Fail("Message")}
        : decoded_value \in convert(d[key])}

\* Lines 23-31: the entries still to come, in any order the HashMap's
\* iterator may yield them, stopping at the first error.
ConvertDict(d, rest, acc) ==
    IF rest = {} THEN {[ok |-> TRUE, val |-> JObject(acc)]}
    ELSE UNION {ConvertEntry(d, rest, acc, key, ConvertBytes(key)) : key \in rest}

\* convert (lines 5-35): the set of results it can return for value.
convert(v) ==
    IF v.t = "Bytes" THEN {ConvertBytes(v.b)}
    ELSE IF v.t = "Int" THEN {[ok |-> TRUE, val |-> JNumber(v.i)]}
    ELSE IF v.t = "List" THEN ConvertList(v.l, 1, <<>>)
    ELSE ConvertDict(v.d, DOMAIN v.d, <<>>)

(***************************************************************************)
(* The state machine: two calls of decode_bencoded_value                   *)
(***************************************************************************)

Calls == {1, 2}

NotCalled == [tag |-> "None"]

\* decode_bencoded_value (lines 4-39) called on encoded_value[c].
\* Line 37's `?` and line 38: the call's result after from_str gave r.
Returned(c, r) ==
    IF ~r.ok
    THEN /\ value' = value
         /\ out' = [out EXCEPT ![c] = [tag |-> "Err", err |-> r.err]]
    ELSE /\ value' = [value EXCEPT ![c] = [tag |-> "Some", v |-> r.val]]
         /\ \E o \in convert(r.val) :
              out' = [out EXCEPT ![c] =
                        IF o.ok THEN [tag |-> "Ok", val |-> o.val]
                        ELSE [tag |-> "Err", err |-> o.err]]

decode_bencoded_value(c) ==
    /\ out[c] = NotCalled
    /\ Returned(c, from_str(encoded_value[c]))
    /\ UNCHANGED <<encoded_value, written>>

Next == \E c \in Calls : decode_bencoded_value(c)

Start(in1, in2, w) ==
    /\ encoded_value = <<in1, in2>>
    /\ written = w
    /\ value = [c \in Calls |-> NotCalled]
    /\ out = [c \in Calls |-> NotCalled]

(***************************************************************************)
(* Inputs: bencode written out from bounded trees, cut short or extended   *)
(***************************************************************************)

\* The largest number of nodes (leaves and containers) of a generated tree.
MaxNodes == 3

\* A tree to be written as bencode: a text, a number, a list of trees, or
\* the entries of a dictionary in the order they are written (a key may
\* occur twice).  A key is a text or, written as a list of integers, bytes.
\* TRaw is text that is written as it stands.
TText(cs) == [k |-> "text", b |-> Str(cs)]
TNum(n) == [k |-> "num", n |-> n]
TList(q) == [k |-> "list", q |-> q]
TDict(q) == [k |-> "dict", q |-> q]
TKey(cs) == [k |-> "text", b |-> Str(cs)]
TKeyBytes(b) == [k |-> "bytes", b |-> b]
TRaw(b) == [k |-> "raw", b |-> b]

RECURSIVE Dec(_)
\* The decimal digits of a natural number, without leading zeros.
Dec(n) == IF n < 10 THEN <<48 + n>> ELSE Dec(n \div 10) \o <<48 + (n % 10)>>

RECURSIVE Enc(_)
RECURSIVE EncAll(_)
RECURSIVE EncEntries(_)
RECURSIVE EncByteList(_)

EncByteList(b) ==
    IF b = <<>> THEN <<>>
    ELSE Str(<<"i">>) \o Dec(Head(b)) \o Str(<<"e">>) \o EncByteList(Tail(b))

EncKey(key) ==
    IF key.k = "text" THEN Dec(Len(key.b)) \o Str(<<":">>) \o key.b
    ELSE Str(<<"l">>) \o EncByteList(key.b) \o Str(<<"e">>)

EncAll(q) == IF q = <<>> THEN <<>> ELSE Enc(Head(q)) \o EncAll(Tail(q))

EncEntries(q) ==
    IF q = <<>> THEN <<>>
    ELSE EncKey(Head(q).key) \o Enc(Head(q).val) \o EncEntries(Tail(q))

\* The bencode text of a tree: <length>:<bytes>, i<digits>e, l...e, d...e.
Enc(t) ==
    IF t.k = "raw" THEN t.b
    ELSE IF t.k = "text" THEN Dec(Len(t.b)) \o Str(<<":">>) \o t.b
    ELSE IF t.k = "num"
         THEN Str(<<"i">>) \o (IF t.n < 0 THEN Str(<<"-">>) \o Dec(0 - t.n) ELSE Dec(t.n))
              \o Str(<<"e">>)
    ELSE IF t.k = "list" THEN Str(<<"l">>) \o EncAll(t.q) \o Str(<<"e">>)
    ELSE Str(<<"d">>) \o EncEntries(t.q) \o Str(<<"e">>)

RECURSIVE TreesOf(_, _, _)
RECURSIVE ListsOf(_, _, _)
RECURSIVE EntriesOf(_, _, _)

\* The sequences of trees with m nodes in all.
ListsOf(m, leaves, keys) ==
    IF m = 0 THEN {<<>>}
    ELSE UNION {{<<t>> \o q : t \in TreesOf(j, leaves, keys),
                              q \in ListsOf(m - j, leaves, keys)}
                : j \in 1..m}

\* The sequences of dictionary entries whose values have m nodes in all.
EntriesOf(m, leaves, keys) ==
    IF m = 0 THEN {<<>>}
    ELSE UNION {{<<[key |-> key, val |-> t]>> \o q :
                    key \in keys, t \in TreesOf(j, leaves, keys),
                    q \in EntriesOf(m - j, leaves, keys)}
                : j \in 1..m}

\* The trees of exactly n nodes with the given leaves and dictionary keys.
TreesOf(n, leaves, keys) ==
    IF n = 1 THEN leaves \cup {TList(<<>>), TDict(<<>>)}
    ELSE {TList(q) : q \in ListsOf(n - 1, leaves, keys)}
         \cup {TDict(q) : q \in EntriesOf(n - 1, leaves, keys)}

\* The arguments of the two calls: the first is the first `cut` bytes of a
\* tree's text, the second is the first followed by `more`.
Written(t, cut, more) ==
    Start(SubSeq(Enc(t), 1, cut), SubSeq(Enc(t), 1, cut) \o more,
          [tree |-> t, cut |-> cut])

(***************************************************************************)
(* Spec: well-formed bencode, whole, cut short, or followed by more bytes  *)
(***************************************************************************)

Leaves == {TText(<<"a">>), TText(<<"E", "a">>), TNum(-7), TNum(42)}

TextKeys == {TKey(<<"a">>), TKey(<<"E">>)}

Trees == UNION {TreesOf(n, Leaves, TextKeys) : n \in 1..MaxNodes}

\* Bytes that may follow a whole text.
Suffixes == {<<>>, Str(<<"e">>), Str(<<"o">>), Str(<<"1", ":", "E">>)}

Init ==
    \E t \in Trees :
        \E n \in 0..Len(Enc(t)), s \in Suffixes :
            /\ n = Len(Enc(t)) \/ s = <<>>
            /\ Written(t, n, s)

Spec == Init /\ [][Next]_vars

(***************************************************************************)
(* What a written tree stands for                                          *)
(***************************************************************************)

Called(c) == out[c] # NotCalled

\* encoded_value[1] is the whole text of the written tree.
Whole == written.cut = Len(Enc(written.tree))

IsPrefix(p, s) == Len(p) <= Len(s) /\ SubSeq(s, 1, Len(p)) = p

KeySet(q) == {q[i].key.b : i \in 1..Len(q)}

\* The position of the last entry of q written under the key bytes kb.
LastIndex(q, kb) ==
    CHOOSE i \in 1..Len(q) :
        q[i].key.b = kb /\ \A j \in (i + 1)..Len(q) : q[j].key.b # kb

RECURSIVE UniqueKeys(_)
\* No dictionary of the tree, at any depth, has a key twice.
UniqueKeys(t) ==
    IF t.k = "list" THEN \A i \in 1..Len(t.q) : UniqueKeys(t.q[i])
    ELSE IF t.k = "dict"
         THEN /\ Cardinality(KeySet(t.q)) = Len(t.q)
              /\ \A i \in 1..Len(t.q) : UniqueKeys(t.q[i].val)
    ELSE TRUE

RECURSIVE Expect(_)
\* The JSON tree a written tree stands for: text, number, array in the
\* written order, object from each key to the value of its entry (of its
\* last entry, should the key be written twice).
Expect(t) ==
    IF t.k = "text" THEN JString(t.b)
    ELSE IF t.k = "num" THEN JNumber(t.n)
    ELSE IF t.k = "list" THEN JArray([i \in 1..Len(t.q) |-> Expect(t.q[i])])
    ELSE JObject([kb \in KeySet(t.q) |-> Expect(t.q[LastIndex(t.q, kb)].val)])

(***************************************************************************)
(* Claims checked under Spec                                               *)
(***************************************************************************)

\* C1: every well-formed bencode text (texts, integers, lists, dictionaries
\* with unique keys, nested) decodes to Ok with the structurally matching
\* tree: the text of the declared length, the same signed number, the
\* array in input order, the object from each key to its decoded value;
\* `le` gives the empty array and `de` the empty object.
C1_WellFormedDecodes ==
    (Called(1) /\ Whole /\ UniqueKeys(written.tree))
        => out[1] = [tag |-> "Ok", val |-> Expect(written.tree)]

\* C1 witness: a dictionary holding a list holding a negative number was
\* decoded.
C1_Witness ==
    /\ Whole
    /\ written.tree = TDict(<<[key |-> TKey(<<"a">>), val |-> TList(<<TNum(-7)>>)]>>)
    /\ out[1] = [tag |-> "Ok",
                 val |-> JObject(Str(<<"a">>) :> JArray(<<JNumber(-7)>>))]

\* C2: trailing bytes are ignored: when an input decodes successfully, the
\* same input followed by any further bytes decodes to the same value.
C2_TrailingBytesIgnored ==
    (/\ Called(1) /\ Called(2)
     /\ IsPrefix(encoded_value[1], encoded_value[2])
     /\ out[1].tag = "Ok")
        => out[2] = out[1]

\* C2 witness: two successful calls, the second on a longer input.
C2_Witness ==
    /\ Len(encoded_value[2]) > Len(encoded_value[1])
    /\ IsPrefix(encoded_value[1], encoded_value[2])
    /\ out[1].tag = "Ok"
    /\ out[2].tag = "Ok"

\* C4: an input that ends while a list or dictionary is still open, at any
\* depth, is rejected with an error.
C4_UnclosedContainerRejected ==
    \A c \in Calls :
        (/\ Called(c)
         /\ encoded_value[c] = encoded_value[1]
         /\ written.tree.k \in {"list", "dict"}
         /\ written.cut >= 1
         /\ ~Whole)
            => out[c].tag = "Err"

\* C4 witness: `li42e` was rejected.
C4_Witness ==
    /\ encoded_value[1] = Str(<<"l", "i", "4", "2", "e">>)
    /\ ~Whole
    /\ out[1].tag = "Err"

\* C10: a dictionary that holds a key more than once decodes successfully
\* to an object with one entry per distinct key, holding the value of the
\* key's last occurrence.
C10_DuplicateKeysLastWins ==
    (/\ Called(1) /\ Whole
     /\ written.tree.k = "dict"
     /\ Cardinality(KeySet(written.tree.q)) < Len(written.tree.q))
        => /\ out[1].tag = "Ok"
           /\ out[1].val.t = "Object"
           /\ DOMAIN out[1].val.m = KeySet(written.tree.q)
           /\ Cardinality(DOMAIN out[1].val.m) = Cardinality(KeySet(written.tree.q))
           /\ \A kb \in KeySet(written.tree.q) :
                out[1].val.m[kb] =
                    Expect(written.tree.q[LastIndex(written.tree.q, kb)].val)

\* C10 witness: `d1:ai-7e1:ai42ee` was decoded to {"a": 42}.
C10_Witness ==
    /\ encoded_value[1] = Str(<<"d", "1", ":", "a", "i", "-", "7", "e",
                        "1", ":", "a", "i", "4", "2", "e", "e">>)
    /\ out[1] = [tag |-> "Ok", val |-> JObject(Str(<<"a">>) :> JNumber(42))]

(***************************************************************************)
(* SpecKeys: dictionaries whose keys are bytes that are no text            *)
(***************************************************************************)

\* `1:` before the two-byte character U+00E9: the declared length cuts it.
CutText == TRaw(Str(<<"1", ":", "E">>))

KeyLeaves == {TNum(1), CutText}

\* The keys `1:a`, `li200ee` and `li201ee`: the last two are the bytes
\* C8 and C9, which are no UTF-8.
MixedKeys == {TKey(<<"a">>), TKeyBytes(<<200>>), TKeyBytes(<<201>>)}

KeyTrees == UNION {TreesOf(n, KeyLeaves, MixedKeys) : n \in 1..MaxNodes}

\* Both calls are given the same whole text.
InitKeys == \E t \in KeyTrees : Written(t, Len(Enc(t)), <<>>)

SpecKeys == InitKeys /\ [][Next]_vars

RECURSIVE HasNonText(_)
\* Some byte-string of the parsed value (an element, a dictionary value or
\* a dictionary key) is not valid UTF-8.
HasNonText(v) ==
    IF v.t = "Bytes" THEN ~IsUtf8(v.b)
    ELSE IF v.t = "List" THEN \E i \in 1..Len(v.l) : HasNonText(v.l[i])
    ELSE IF v.t = "Dict"
         THEN \E kb \in DOMAIN v.d : ~IsUtf8(kb) \/ HasNonText(v.d[kb])
    ELSE FALSE

RECURSIVE Faithful(_, _)
\* The JSON tree j holds exactly what the parsed value v holds: the same
\* bytes in every string, the same numbers, the same elements in order,
\* the same keys, nothing dropped and nothing substituted.
Faithful(v, j) ==
    IF v.t = "Bytes" THEN j.t = "String" /\ j.s = v.b
    ELSE IF v.t = "Int" THEN j.t = "Number" /\ j.n = v.i
    ELSE IF v.t = "List"
         THEN /\ j.t = "Array"
              /\ Len(j.a) = Len(v.l)
              /\ \A i \in 1..Len(v.l) : Faithful(v.l[i], j.a[i])
    ELSE /\ j.t = "Object"
         /\ DOMAIN j.m = DOMAIN v.d
         /\ \A kb \in DOMAIN v.d : Faithful(v.d[kb], j.m[kb])

\* C7: whenever a byte-string of the parsed value (a list element, a
\* dictionary value or a dictionary key) is not valid UTF-8, the call
\* returns an error; a tree that is returned holds the parsed bytes
\* unchanged, with no character substituted and no entry dropped.
C7_NonTextIsAnError ==
    \A c \in Calls :
        (Called(c) /\ value[c] # NotCalled)
            => /\ HasNonText(value[c].v) => out[c].tag = "Err"
               /\ out[c].tag = "Ok" => Faithful(value[c].v, out[c].val)

\* C7 witness: a dictionary with a key that is no text was parsed and the
\* call returned an error.
C7_Witness ==
    /\ value[1] # NotCalled
    /\ value[1].v.t = "Dict"
    /\ \E kb \in DOMAIN value[1].v.d : ~IsUtf8(kb)
    /\ out[1].tag = "Err"

\* C9: two calls on the same input give the same outcome: the same value
\* on success, the same error kind on failure, also for a dictionary with
\* more than one defective entry, whatever the order its entries are
\* converted in.
C9_Deterministic ==
    (Called(1) /\ Called(2) /\ encoded_value[1] = encoded_value[2])
        => /\ out[1].tag = out[2].tag
           /\ out[1].tag = "Ok" => out[1].val = out[2].val
           /\ out[1].tag = "Err" => out[1].err.kind = out[2].err.kind

\* C9 witness: both calls failed on a dictionary with two keys that are no
\* text.
C9_Witness ==
    /\ encoded_value[1] = encoded_value[2]
    /\ value[1] # NotCalled
    /\ value[1].v.t = "Dict"
    /\ Cardinality({kb \in DOMAIN value[1].v.d : ~IsUtf8(kb)}) >= 2
    /\ out[1].tag = "Err"
    /\ out[2].tag = "Err"

(***************************************************************************)
(* SpecStr and SpecInt: arbitrary bytes at a place where a value starts    *)
(***************************************************************************)

\* The largest number of characters written at the place of the value.
MaxBody == 4

\* What is written before the value: nothing, an open list, an open list
\* after an element, an open dictionary (the value stands for a key), an
\* open dictionary after a key.
Contexts ==
    {<<>>, Str(<<"l">>), Str(<<"l", "i", "1", "e">>), Str(<<"d">>),
     Str(<<"d", "1", ":", "a">>)}

\* Every text of at most MaxBody characters of the alphabet.
TextsOver(alphabet) ==
    UNION {{Str(cs) : cs \in [1..n -> alphabet]} : n \in 0..MaxBody}

StrAlphabet == {"1", "2", ":", "a", "e"}

InitStr ==
    \E pre \in Contexts, body \in TextsOver(StrAlphabet) :
        Written(TRaw(pre \o body), Len(pre \o body), <<>>)

SpecStr == InitStr /\ [][Next]_vars

IntAlphabet == {"0", "1", "-", "+", "a", "e"}

InitInt ==
    \E pre \in Contexts, body \in TextsOver(IntAlphabet) :
        Written(TRaw(pre \o Str(<<"i">>) \o body),
                Len(pre \o Str(<<"i">>) \o body), <<>>)

SpecInt == InitInt /\ [][Next]_vars

\* What input s holds after the context pre.
After(pre, s) == SubSeq(s, Len(pre) + 1, Len(s))

\* The bytes of s before its first byte b (all of s when it has none).
Before(s, b) ==
    IF FindByte(s, b, 1) = 0 THEN s ELSE SubSeq(s, 1, FindByte(s, b, 1) - 1)

Leaders == {ByteOf("i"), ByteOf("l"), ByteOf("d"), ByteOf("e")}

\* rest, which does not start like an integer, a list, a dictionary or an
\* end marker, is no byte-string: it has no colon, what stands before the
\* colon is no number, or fewer bytes than declared follow the colon.
MalformedByteString(rest) ==
    /\ rest # <<>>
    /\ rest[1] \notin Leaders
    /\ \/ FindByte(rest, ByteOf(":"), 1) = 0
       \/ Before(rest, ByteOf(":")) = <<>>
       \/ ~AllDigits(Before(rest, ByteOf(":")))
       \/ DigitsValue(Before(rest, ByteOf(":")), 0)
            > Len(rest) - FindByte(rest, ByteOf(":"), 1)

\* C3: a malformed byte-string, at top level or inside a list or a
\* dictionary, is rejected with an error: a length that is no number, a
\* missing colon, or fewer bytes left than declared; a string that is
\* returned has exactly the declared length.
C3_MalformedStringRejected ==
    \A c \in Calls :
        Called(c) =>
            /\ \A pre \in Contexts :
                 (IsPrefix(pre, encoded_value[c]) /\ MalformedByteString(After(pre, encoded_value[c])))
                     => out[c].tag = "Err"
            /\ (out[c].tag = "Ok" /\ IsDigit(encoded_value[c][1]))
                     => /\ out[c].val.t = "String"
                        /\ Len(out[c].val.s)
                             = DigitsValue(Before(encoded_value[c], ByteOf(":")), 0)

\* C3 witness: `l2:a`, a string inside a list with one byte where two are
\* declared, was rejected.
C3_Witness ==
    /\ encoded_value[1] = Str(<<"l", "2", ":", "a">>)
    /\ MalformedByteString(After(Str(<<"l">>), encoded_value[1]))
    /\ out[1].tag = "Err"

\* What stands between the `i` that rest starts with and the next `e`.
IntContent(rest) == Before(Tail(rest), ByteOf("e"))

\* `-`? followed by one or more digits.
IsIntGrammar(content) ==
    /\ content # <<>>
    /\ IF content[1] = ByteOf("-")
       THEN Tail(content) # <<>> /\ AllDigits(Tail(content))
       ELSE AllDigits(content)

\* C5 (as claimed): an integer that violates i<digits>e is rejected: no
\* terminating `e`, a non-digit other than one leading `-` between `i` and
\* `e`, or no digits at all.
C5_MalformedIntegerRejected ==
    \A c \in Calls, pre \in Contexts :
        (/\ Called(c)
         /\ IsPrefix(pre \o Str(<<"i">>), encoded_value[c])
         /\ \/ FindByte(After(pre, encoded_value[c]), ByteOf("e"), 1) = 0
            \/ ~IsIntGrammar(IntContent(After(pre, encoded_value[c]))))
            => out[c].tag = "Err"

\* The digits of an integer's content, without its sign.
Unsigned(content) ==
    IF content # <<>> /\ content[1] = ByteOf("-") THEN Tail(content) ELSE content

\* -0, or a leading zero on anything but the literal 0.
NonCanonical(content) ==
    /\ IsIntGrammar(content)
    /\ \/ content = Str(<<"-", "0">>)
       \/ Len(Unsigned(content)) > 1 /\ Unsigned(content)[1] = ByteOf("0")

\* C6 (as claimed): `i-0e` and every integer with a leading zero other
\* than the literal 0 is rejected, at top level or nested.
C6_NonCanonicalIntegerRejected ==
    \A c \in Calls, pre \in Contexts :
        (/\ Called(c)
         /\ IsPrefix(pre \o Str(<<"i">>), encoded_value[c])
         /\ FindByte(After(pre, encoded_value[c]), ByteOf("e"), 1) # 0
         /\ NonCanonical(IntContent(After(pre, encoded_value[c]))))
            => out[c].tag = "Err"

(***************************************************************************)
(* SpecKinds: two calls on inputs that fail in different ways              *)
(***************************************************************************)

\* Inputs that end inside a dictionary.
EndInDict ==
    {Str(<<"d", "3", ":", "k", "e", "y", "5", ":", "v", "a", "l", "u", "e">>),
     Str(<<"d">>)}

\* Inputs that end inside a list.
EndInList == {Str(<<"l">>), Str(<<"l", "i", "4", "2", "e">>)}

\* Inputs that end inside an integer, before its closing `e`.
EndInInteger == {Str(<<"i", "1", "2", "3", "4", "5", "6">>), Str(<<"i", "1">>)}

\* A dictionary whose key `li200ee` is the byte C8, which is no text.
NonTextKey == {Str(<<"d", "l", "i", "2", "0", "0", "e", "e", "1", ":", "a", "e">>)}

\* A byte-string whose declared length cuts a two-byte character.
NonTextValue == {Str(<<"1", ":", "E">>)}

KindInputs ==
    EndInDict \cup EndInList \cup EndInInteger \cup NonTextKey \cup NonTextValue
        \cup {Str(<<"l", "e">>), Str(<<"i", "1", "e">>), Str(<<"x">>)}

InitKinds ==
    \E a \in KindInputs, b \in KindInputs :
        Start(a, b, [tree |-> TRaw(a), cut |-> Len(a)])

SpecKinds == InitKinds /\ [][Next]_vars

\* The classes of failure the error is to tell apart.
FailureClasses == {EndInDict, EndInList, EndInInteger}

\* C8 (as claimed): the error identifies the failure kind: an input that
\* ends inside a dictionary, one that ends inside a list and one that ends
\* inside an integer are reported as three distinct error kinds, and a
\* dictionary key that is no text is reported with another kind than a
\* value that is no text.
C8_ErrorKindsDistinct ==
    (Called(1) /\ Called(2)) =>
        /\ \A x \in FailureClasses, y \in FailureClasses :
             (x # y /\ encoded_value[1] \in x /\ encoded_value[2] \in y)
                 => /\ out[1].tag = "Err"
                    /\ out[2].tag = "Err"
                    /\ out[1].err.kind # out[2].err.kind
        /\ (encoded_value[1] \in NonTextKey /\ encoded_value[2] \in NonTextValue)
                 => /\ out[1].tag = "Err"
                    /\ out[2].tag = "Err"
                    /\ out[1].err.kind # out[2].err.kind

====
